---------------------------- MODULE Spec2Model ----------------------------
(***************************************************************************)
(* A model of the two concurrent pieces of kentik-mcp:                     *)
(*                                                                         *)
(*   - kentik_list_all_interfaces (pkg/tools/interfaces.go): one goroutine *)
(*     per active device, a buffered channel of capacity 4 as semaphore,   *)
(*     a sync.WaitGroup as barrier, results written by index;              *)
(*   - kentik_ai_advisor (pkg/tools/ai_advisor.go): submit, then a         *)
(*     sleep-then-poll loop bounded by an elapsed-time counter.            *)
(*                                                                         *)
(* The Kentik API (client.V5 / client.V6) is the environment: every reply  *)
(* is a nondeterministic choice among the replies doRequest can produce.   *)
(***************************************************************************)
EXTENDS Integers, Sequences, FiniteSets, TLC

(***************************************************************************)
(* Bounds of the model.                                                    *)
(***************************************************************************)
\* Longest device list the Gateway returns for GET /devices.
MaxDevices == 5
\* Longest time, in seconds, the Gateway takes to answer one poll.
MaxLatency == 1
\* Invocations of kentik_ai_advisor made one after the other.
MaxInvocations == 2
\* The one device whose interfaces endpoint may answer 2xx with a body that
\* is not JSON.
BadBodyDevice == 1
\* Invocations of kentik_list_all_interfaces running at the same time.
MaxListings == 2
\* Most active devices of one of the listings running at the same time.
MaxListingDevices == 4
\* Calls of the context tools that may be running at the same time.
MaxCalls == 2
\* The one position of the device list whose device may be inactive.
InactivePos == 2

(***************************************************************************)
(* Program constants.                                                      *)
(***************************************************************************)
\* interfaces.go:96  sem := make(chan struct{}, 4)
SemCap == 4
\* ai_advisor.go:63  maxWait := 90 * time.Second   (in seconds)
MaxWait == 90
\* ai_advisor.go:64  interval := 2 * time.Second   (in seconds)
Interval == 2

VARIABLES
    \* ---- kentik_list_all_interfaces, one invocation ----
    gwDevices,      \* the device list the Gateway holds (reply to GET /devices)
    hpc,            \* position of the handler
    activeDevices,  \* interfaces.go:87   var activeDevices []deviceEntry
    results,        \* interfaces.go:95   results := make([]deviceInterfaceResult, n)
    loopIdx,        \* number of iterations of the spawning loop done
    tpc,            \* position of the goroutine of each index
    sem,            \* number of elements in the channel sem
    wg,             \* counter of the WaitGroup
    fetchCalls,     \* per index: GET /device/<id>/interfaces requests issued
    output,         \* the *mcp.CallToolResult the handler returned
    cancelled       \* interfaces.go:72   the caller has cancelled ctx

bulkVars == <<gwDevices, hpc, activeDevices, results, loopIdx, tpc, sem, wg,
              fetchCalls, output, cancelled>>

VARIABLES
    \* ---- kentik_ai_advisor, invocations one after the other ----
    apc,            \* position of the handler
    inv,            \* number of invocations started
    argSession,     \* the session_id argument of the running invocation
    submitReq,      \* the submission request sent (method, body: id, prompt)
    submits,        \* submission requests sent by the running invocation
    respID,         \* ai_advisor.go:54  resp.ID
    elapsed,        \* ai_advisor.go:65  elapsed, in seconds
    polls,          \* poll requests sent by the running invocation
    pollTarget,     \* the session the last poll request was addressed to
    latency,        \* seconds the Gateway takes to answer a poll of this invocation
    wall,           \* seconds of real time since the submission returned
    termAt,         \* number of the first poll that showed a terminal status
    lastReply,      \* the poll reply that ended the loop (NoReply while none did)
    cause,          \* the path on which the invocation returned
    advResult,      \* the *mcp.CallToolResult of the invocation
    token,          \* session id in the timeout result of the previous invocation
    resumed         \* the running invocation was given that session id

advVars == <<apc, inv, argSession, submitReq, submits, respID, elapsed, polls,
             pollTarget, latency, wall, termAt, lastReply, cause, advResult,
             token, resumed>>

VARIABLES
    \* ---- kentik_query_data: buildQueryObject on one request ----
    qpc,            \* position: "start", "built" or "refused"
    qArgs,          \* the arguments of the request
    query           \* query.go:795-806  the map buildQueryObject returns

queryVars == <<qpc, qArgs, query>>

VARIABLES
    \* ---- kentik_list_all_interfaces, several invocations at once ----
    lsem,           \* per invocation: elements in its channel sem
    ltpc            \* per invocation and index: position of the goroutine

listVars == <<lsem, ltpc>>

VARIABLES
    \* ---- kentik_save_context / kentik_delete_context ----
    store,          \* contexts.go:31-33  Contexts in ~/.kentik-mcp-contexts.json
    spc,            \* per handler call: "idle", "loaded" or "done"
    sop,            \* per handler call: the tool called and its arguments
    scf,            \* per handler call: cf.Contexts, as loaded from the file
    sres            \* per handler call: the tool result

storeVars == <<store, spc, sop, scf, sres>>

\* The variables of the tools other than the listing and the advisor.
toolVars == <<queryVars, listVars, storeVars>>

vars == <<bulkVars, advVars, toolVars>>

(***************************************************************************)
(* Values.                                                                 *)
(***************************************************************************)
\* interfaces.go:58-62  deviceEntry.  IDs are the device's position in the
\* Gateway's list; the name is kept distinct from the ID.
DeviceEntry(id, status) ==
    [ID |-> id, DeviceName |-> 100 + id, Status |-> status]

\* The device lists GET /devices may return: n devices, all of them active
\* (inact = 0) or all but the one at position inact.
DeviceList(n, inact) ==
    [k \in 1..n |-> DeviceEntry(k, IF k = inact THEN "D" ELSE "V")]

\* A device list without any active device.
InactiveList(n) == [k \in 1..n |-> DeviceEntry(k, "D")]

\* json.RawMessage: nil, or the bytes of a response body.
NilRaw == [isNil |-> TRUE, bytes |-> <<>>]
Raw(b) == [isNil |-> FALSE, bytes |-> b]

\* The bodies a 2xx reply to GET /device/<id>/interfaces may carry: the
\* interfaces of that device as JSON, or bytes that are not JSON (an empty
\* body, an HTML page of a proxy).
InterfacesJSON(id) == <<"interfaces", id>>
NotJSON == <<"<html>">>
ValidJSON(b) == Len(b) = 2 /\ b[1] = "interfaces"

\* client.go doRequest: the replies of one call.
\*   kind "ok"  : 2xx, body returned as json.RawMessage      (part_000:92)
\*   kind "err" : transport failure or non-2xx, error text   (part_000:79,89)
FetchReplies(id) ==
    { [kind |-> "ok", body |-> InterfacesJSON(id), err |-> ""],
      [kind |-> "err", body |-> <<>>, err |-> "API error 503"] }
    \cup
    { [kind |-> "ok", body |-> NotJSON, err |-> ""] : x \in {id} \cap {BadBodyDevice} }

\* interfaces.go:64-69  the zero deviceInterfaceResult.
ZeroResult ==
    [DeviceID |-> 0, DeviceName |-> 0, Interfaces |-> NilRaw, Error |-> ""]

\* interfaces.go:110-118  the result a goroutine stores for dev and reply.
BuildResult(dev, reply) ==
    [DeviceID |-> dev.ID, DeviceName |-> dev.DeviceName,
     Interfaces |-> IF reply.kind = "err" THEN NilRaw ELSE Raw(reply.body),
     Error |-> IF reply.kind = "err" THEN reply.err ELSE ""]

\* (mutant: the filter is missing, every device is kept)
MutFilterActiveKeepsAll(ds) == ds

\* interfaces.go:86-92  keep the devices whose status is "V".
RECURSIVE FilterActive(_)
FilterActive(ds) ==
    IF ds = <<>> THEN <<>>
    ELSE IF Head(ds).Status = "V"
         THEN <<Head(ds)>> \o FilterActive(Tail(ds))
         ELSE FilterActive(Tail(ds))

\* encoding/json on one deviceInterfaceResult: a nil RawMessage is written
\* as null, "error" is omitted when empty.
MarshalResult(r) ==
    [device_id |-> r.DeviceID, device_name |-> r.DeviceName,
     interfaces |-> IF r.Interfaces.isNil THEN <<"null">> ELSE r.Interfaces.bytes,
     has_error |-> r.Error # "", error |-> r.Error]

\* interfaces.go:123  json.Marshal(results) fails when a non-nil RawMessage
\* is not valid JSON.
MarshalFails(rs) ==
    \E i \in 1..Len(rs) :
        ~rs[i].Interfaces.isNil /\ ~ValidJSON(rs[i].Interfaces.bytes)

\* mcp.NewToolResultError / mcp.NewToolResultText.
ToolResultError(msg) == [isError |-> TRUE, text |-> msg, items |-> <<>>]
ToolResultItems(items) == [isError |-> FALSE, text |-> "json", items |-> items]
NoOutput == [isError |-> FALSE, text |-> "none", items |-> <<>>]

Tasks == 1..MaxDevices

(***************************************************************************)
(* kentik_list_all_interfaces.                                             *)
(***************************************************************************)
BulkInit ==
    /\ \E n \in 0..MaxDevices :
           \/ \E inact \in {0, InactivePos} : gwDevices = DeviceList(n, inact)
           \/ gwDevices = InactiveList(n)
    /\ hpc = "start"
    /\ activeDevices = <<>>
    /\ results = <<>>
    /\ loopIdx = 0
    /\ tpc = [i \in Tasks |-> "none"]
    /\ sem = 0
    /\ wg = 0
    /\ fetchCalls = [i \in Tasks |-> 0]
    /\ output = NoOutput
    /\ cancelled = FALSE

\* interfaces.go:74-77  GET /devices fails.
ListDevicesFails ==
    /\ hpc = "start"
    /\ hpc' = "returned"
    /\ output' = ToolResultError("Failed to list devices")
    /\ UNCHANGED <<gwDevices, activeDevices, results, loopIdx, tpc, sem, wg,
                   fetchCalls>>
    /\ UNCHANGED <<cancelled, advVars, toolVars>>

\* interfaces.go:79-84  the reply to GET /devices is not the expected JSON.
ListDevicesUnparsable ==
    /\ hpc = "start"
    /\ hpc' = "returned"
    /\ output' = ToolResultError("Failed to parse devices")
    /\ UNCHANGED <<gwDevices, activeDevices, results, loopIdx, tpc, sem, wg,
                   fetchCalls>>
    /\ UNCHANGED <<cancelled, advVars, toolVars>>

\* interfaces.go:74-97  the device list arrives; filter it, allocate results.
ListDevices ==
    /\ hpc = "start"
    /\ activeDevices' = FilterActive(gwDevices)
    /\ results' = [i \in 1..Len(FilterActive(gwDevices)) |-> ZeroResult]
    /\ hpc' = "spawn"
    /\ UNCHANGED <<gwDevices, loopIdx, tpc, sem, wg, fetchCalls, output>>
    /\ UNCHANGED <<cancelled, advVars, toolVars>>

\* interfaces.go:99-101  one iteration of the loop: wg.Add(1); go func(i, device).
Spawn ==
    /\ hpc = "spawn"
    /\ loopIdx < Len(activeDevices)
    /\ loopIdx' = loopIdx + 1
    /\ wg' = wg + 1
    /\ tpc' = [tpc EXCEPT ![loopIdx + 1] = "blocked"]
    /\ UNCHANGED <<gwDevices, hpc, activeDevices, results, sem, fetchCalls,
                   output>>
    /\ UNCHANGED <<cancelled, advVars, toolVars>>

\* interfaces.go:103  sem <- struct{}{} : blocks while the channel is full.
\* (mutant: the channel admits one element more)
MutCanAcquireOneOver == sem <= SemCap

CanAcquire == sem < SemCap

Acquire(i) ==
    /\ tpc[i] = "blocked"
    /\ CanAcquire
    /\ sem' = sem + 1
    /\ tpc' = [tpc EXCEPT ![i] = "sleeping"]
    /\ UNCHANGED <<gwDevices, hpc, activeDevices, results, loopIdx, wg,
                   fetchCalls, output>>
    /\ UNCHANGED <<cancelled, advVars, toolVars>>

\* interfaces.go:107-109  the 100 ms sleep is over; the request is sent.
StartFetch(i) ==
    /\ tpc[i] = "sleeping"
    /\ tpc' = [tpc EXCEPT ![i] = "fetching"]
    /\ fetchCalls' = [fetchCalls EXCEPT ![i] = @ + 1]
    /\ UNCHANGED <<gwDevices, hpc, activeDevices, results, loopIdx, sem, wg,
                   output>>
    /\ UNCHANGED <<cancelled, advVars, toolVars>>

\* interfaces.go:109-118  the index at which goroutine idx stores its result.
\* (mutant: the result is appended in completion order)
MutResultSlotAppend(idx) ==
    1 + Cardinality({j \in 1..Len(activeDevices) :
                        tpc[j] \in {"fetched", "released", "done"}})

ResultSlot(idx) == idx

\* (mutant: a fetch that failed is tried again)
MutAfterFetchRetryOnError(reply) ==
    IF reply.kind = "err" THEN "sleeping" ELSE "fetched"

\* interfaces.go:109-119  where the goroutine is once client.V5 has returned:
\* at the end of its body, whatever the reply.
AfterFetch(reply) == "fetched"

\* interfaces.go:109-118  client.V5 returns; the result is stored at idx.
FinishFetch(i) ==
    /\ tpc[i] = "fetching"
    /\ \E reply \in FetchReplies(activeDevices[i].ID) :
           /\ results' = [results EXCEPT
                  ![ResultSlot(i)] = BuildResult(activeDevices[i], reply)]
           /\ tpc' = [tpc EXCEPT ![i] = AfterFetch(reply)]
    /\ UNCHANGED <<gwDevices, hpc, activeDevices, loopIdx, sem, wg,
                   fetchCalls, output>>
    /\ UNCHANGED <<cancelled, advVars, toolVars>>

\* (mutant: the release is missing)
MutSlotsAfterReleaseNever(i) == sem

\* (mutant: the slot is not given back when the fetch failed)
MutSlotsAfterReleaseLeakOnError(i) ==
    IF results[i].Error # "" THEN sem ELSE sem - 1

\* interfaces.go:104  <-sem takes one element out of the channel.
SlotsAfterRelease(i) == sem - 1

\* interfaces.go:104  deferred <-sem (runs first: registered last).
Release(i) ==
    /\ tpc[i] = "fetched"
    /\ sem' = SlotsAfterRelease(i)
    /\ tpc' = [tpc EXCEPT ![i] = "released"]
    /\ UNCHANGED <<gwDevices, hpc, activeDevices, results, loopIdx, wg,
                   fetchCalls, output>>
    /\ UNCHANGED <<cancelled, advVars, toolVars>>

\* interfaces.go:102  deferred wg.Done().
Done(i) ==
    /\ tpc[i] = "released"
    /\ wg' = wg - 1
    /\ tpc' = [tpc EXCEPT ![i] = "done"]
    /\ UNCHANGED <<gwDevices, hpc, activeDevices, results, loopIdx, sem,
                   fetchCalls, output>>
    /\ UNCHANGED <<cancelled, advVars, toolVars>>

\* interfaces.go:121  wg.Wait() returns when the counter is zero.
\* (mutant: the handler does not wait)
MutBarrierOpenAlways == TRUE

BarrierOpen == wg = 0

Wait ==
    /\ hpc = "spawn"
    /\ loopIdx = Len(activeDevices)
    /\ BarrierOpen
    /\ hpc' = "marshal"
    /\ UNCHANGED <<gwDevices, activeDevices, results, loopIdx, tpc, sem, wg,
                   fetchCalls, output>>
    /\ UNCHANGED <<cancelled, advVars, toolVars>>

\* interfaces.go:72  the caller cancels ctx while the handler is spawning or
\* waiting and some goroutine has not stored its result yet.  The handler and
\* its goroutines never read ctx (client.doRequest builds its requests
\* without it), so nothing else changes.
Cancel ==
    /\ ~cancelled
    /\ hpc = "spawn"
    /\ \E i \in 1..Len(activeDevices) :
           tpc[i] \in {"none", "blocked", "sleeping", "fetching"}
    /\ cancelled' = TRUE
    /\ UNCHANGED <<gwDevices, hpc, activeDevices, results, loopIdx, tpc, sem,
                   wg, fetchCalls, output>>
    /\ UNCHANGED <<advVars, toolVars>>

\* interfaces.go:123-127  json.Marshal(results) and the tool result.
MarshalOutput(rs) ==
    IF MarshalFails(rs)
    THEN ToolResultError("Failed to marshal results")
    ELSE ToolResultItems([i \in 1..Len(rs) |-> MarshalResult(rs[i])])

MarshalReturn ==
    /\ hpc = "marshal"
    /\ output' = MarshalOutput(results)
    /\ hpc' = "returned"
    /\ UNCHANGED <<gwDevices, activeDevices, results, loopIdx, tpc, sem, wg,
                   fetchCalls>>
    /\ UNCHANGED <<cancelled, advVars, toolVars>>

(***************************************************************************)
(* kentik_ai_advisor.                                                      *)
(***************************************************************************)
\* Session identifiers the caller passes and the Gateway returns.  "" is an
\* absent session_id (ai_advisor.go:34) or a reply without an "id" field.
SessionIds == {"s1", "s2"}
ReplyIds == SessionIds \cup {""}

\* Status values of a poll reply (ai_advisor.go:92-110 knows two of them).
Statuses == {"SESSION_STATUS_PENDING", "SESSION_STATUS_RUNNING",
             "SESSION_STATUS_COMPLETED", "SESSION_STATUS_FAILED",
             "SESSION_STATUS_UNSPECIFIED", "completed", ""}

\* ai_advisor.go:79-86  what the handler reads of the messages of a poll
\* reply: how many there are and the last one's finalAnswer / errorMessage.
LastMessages ==
    [n : {0, 2}, FinalAnswer : {"", "answer"}, ErrorMessage : {"", "rate limited"}]

\* The replies to GET /ai_advisor/v202511/chat/<id> (poll).
\*   kind "err"        : client.V6 returns an error
\*   kind "unparsable" : 2xx whose body json.Unmarshal rejects
\*   kind "ok"         : 2xx with id, status and messages
PollReplies ==
    [kind : {"err", "unparsable"}, id : {""}, status : {""},
     msgs : {[n |-> 0, FinalAnswer |-> "", ErrorMessage |-> ""]}]
    \cup
    [kind : {"ok"}, id : ReplyIds, status : Statuses, msgs : LastMessages]

\* No poll reply has ended the loop.
NoReply ==
    [kind |-> "none", id |-> "", status |-> "",
     msgs |-> [n |-> 0, FinalAnswer |-> "", ErrorMessage |-> ""]]

\* The texts of the tool results, by their format string.
FmtNoQuestion == "required argument \"question\" not found"
FmtSubmitFailed == "Failed to create AI Advisor session: %v"
FmtSubmitParse == "Failed to parse AI Advisor response: %v"
FmtPollFailed == "Failed to poll AI Advisor: %v"
FmtPollParse == "Failed to parse poll response: %v"
FmtAnswer == "**AI Advisor Response** (session: %s)\n\n%s"
FmtRaw == "%s"
FmtFailed == "AI Advisor failed: %s"
FmtTimeout ==
    "AI Advisor timed out after %v. Session ID: %s - you can retry by passing this session_id."

\* mcp.NewToolResultError(fmt.Sprintf(f, ...)) and mcp.NewToolResultText.
AdvError(f, session, detail) ==
    [isError |-> TRUE, fmt |-> f, session |-> session, detail |-> detail]
AdvText(f, session, detail) ==
    [isError |-> FALSE, fmt |-> f, session |-> session, detail |-> detail]
NoResult == [isError |-> FALSE, fmt |-> "", session |-> "", detail |-> ""]
NoRequest == [method |-> "", id |-> "", prompt |-> ""]

AdvInit ==
    /\ apc = "idle"
    /\ inv = 0
    /\ argSession = ""
    /\ submitReq = NoRequest
    /\ submits = 0
    /\ respID = ""
    /\ elapsed = 0
    /\ polls = 0
    /\ pollTarget = ""
    /\ latency = 0
    /\ wall = 0
    /\ termAt = 0
    /\ lastReply = NoReply
    /\ cause = "none"
    /\ advResult = NoResult
    /\ token = ""
    /\ resumed = FALSE

\* A new invocation may begin when none is running.
CanInvoke == apc \in {"idle", "returned"} /\ inv < MaxInvocations

\* The session id a timeout result hands to the caller, kept until the next
\* invocation has begun.
TokenOf(c, r) == IF c = "timeout" THEN r.session ELSE ""

\* ai_advisor.go:38-49  the submission request for a session_id argument.
\* (mutant: the test of the session id is inverted)
MutSubmitRequestInverted(sid) ==
    IF sid = "" THEN [method |-> "PUT", id |-> sid, prompt |-> "question"]
    ELSE [method |-> "POST", id |-> "", prompt |-> "question"]

\* (mutant: every submission creates a new session)
MutSubmitRequestAlwaysPost(sid) ==
    [method |-> "POST", id |-> "", prompt |-> "question"]

SubmitRequest(sid) ==
    IF sid # "" THEN [method |-> "PUT", id |-> sid, prompt |-> "question"]
    ELSE [method |-> "POST", id |-> "", prompt |-> "question"]

\* What every invocation sets when it begins.
Begin(sid) ==
    /\ inv' = inv + 1
    /\ argSession' = sid
    /\ token' = TokenOf(cause, advResult)
    /\ resumed' = (sid # "" /\ sid = TokenOf(cause, advResult))
    /\ elapsed' = 0
    /\ polls' = 0
    /\ pollTarget' = ""
    /\ wall' = 0
    /\ termAt' = 0
    /\ lastReply' = NoReply

\* (mutant: the handler goes on to poll after a failed submission)
MutAfterSubmitFailureLoop == "loop"

\* ai_advisor.go:50-52  where the handler is after a failed submission.
AfterSubmitFailure == "returned"

\* (mutant: the raw payload is shown instead of the parse error)
MutSubmitUnparsableShowsRaw == AdvText(FmtRaw, "", "raw submission payload")

\* ai_advisor.go:58-60  the result when the submission reply cannot be parsed.
SubmitUnparsableResult == AdvError(FmtSubmitParse, "", "invalid character")

\* ai_advisor.go:30-33  the question argument is missing.
InvokeNoQuestion ==
    /\ CanInvoke
    /\ latency' = 0
    /\ \E sid \in ReplyIds : Begin(sid)
    /\ submitReq' = NoRequest
    /\ submits' = 0
    /\ respID' = ""
    /\ cause' = "no_question"
    /\ advResult' = AdvError(FmtNoQuestion, "", "")
    /\ apc' = "returned"
    /\ UNCHANGED <<bulkVars, toolVars>>

\* ai_advisor.go:34-52  the submission request fails.
InvokeSubmitFails ==
    /\ CanInvoke
    /\ latency' = 0
    /\ \E sid \in ReplyIds : Begin(sid) /\ submitReq' = SubmitRequest(sid)
    /\ submits' = 1
    /\ respID' = ""
    /\ cause' = "submit_failed"
    /\ advResult' = AdvError(FmtSubmitFailed, "", "API error 500")
    /\ apc' = AfterSubmitFailure
    /\ UNCHANGED <<bulkVars, toolVars>>

\* ai_advisor.go:34-60  the submission reply is not the expected JSON.
InvokeSubmitUnparsable ==
    /\ CanInvoke
    /\ latency' = 0
    /\ \E sid \in ReplyIds : Begin(sid) /\ submitReq' = SubmitRequest(sid)
    /\ submits' = 1
    /\ respID' = ""
    /\ cause' = "submit_parse"
    /\ advResult' = SubmitUnparsableResult
    /\ apc' = "returned"
    /\ UNCHANGED <<bulkVars, toolVars>>

\* (mutant: the first poll is sent right after the submission)
MutAfterSubmitPollFirst == "poll"

\* ai_advisor.go:62-69  where the handler is after a submission that was
\* parsed: at the test of the loop, whose body begins with the sleep.
AfterSubmit == "loop"

\* ai_advisor.go:34-65  the submission succeeds; resp.ID is what the reply says.
InvokeSubmit ==
    /\ CanInvoke
    /\ \E d \in 0..MaxLatency : latency' = d
    /\ \E sid \in ReplyIds : Begin(sid) /\ submitReq' = SubmitRequest(sid)
    /\ submits' = 1
    /\ \E id \in ReplyIds : respID' = id
    /\ cause' = "none"
    /\ advResult' = NoResult
    /\ apc' = AfterSubmit
    /\ UNCHANGED <<bulkVars, toolVars>>

\* ai_advisor.go:67  the loop condition.
\* (mutant: off by one in the loop condition)
MutLoopContinuesOneMore == elapsed <= MaxWait

LoopContinues == elapsed < MaxWait

\* ai_advisor.go:67-69  loop test, time.Sleep(interval), elapsed += interval.
Sleep ==
    /\ apc = "loop"
    /\ LoopContinues
    /\ elapsed' = elapsed + Interval
    /\ wall' = wall + Interval
    /\ apc' = "poll"
    /\ UNCHANGED <<inv, argSession, submitReq, submits, respID, polls,
                   pollTarget, latency, termAt, lastReply, cause, advResult,
                   token, resumed>>
    /\ UNCHANGED <<bulkVars, toolVars>>

\* ai_advisor.go:92-110  the statuses that end the loop.
\* (mutant: an empty status is taken for the end of the session)
MutIsTerminalEmptyToo(status) ==
    status \in {"SESSION_STATUS_COMPLETED", "SESSION_STATUS_FAILED", ""}

\* (mutant: the case of the completed status is missing)
MutIsTerminalOnlyFailed(status) == status = "SESSION_STATUS_FAILED"

IsTerminal(status) ==
    status \in {"SESSION_STATUS_COMPLETED", "SESSION_STATUS_FAILED"}

\* ai_advisor.go:71-110  the result of the invocation after a poll reply, or
\* NoResult when the loop goes on.
\* (mutant: a failed poll is ignored and the loop goes on)
MutPollFailedResultRetry(detail) == NoResult

\* (mutant: a failed poll is reported with the text of a failed session)
MutPollFailedResultAsFailed(detail) == AdvError(FmtFailed, "", detail)

\* ai_advisor.go:72-74  the result when client.V6 fails on a poll.
PollFailedResult(detail) == AdvError(FmtPollFailed, "", detail)

\* ai_advisor.go:88-90  the result when the poll reply cannot be parsed.
PollUnparsableResult == AdvError(FmtPollParse, "", "invalid character")

\* (mutant: no fallback for a completed session without messages)
MutCompletedResultNoFallback(reply) ==
    IF reply.msgs.n > 0
    THEN AdvText(FmtAnswer, reply.id, reply.msgs.FinalAnswer)
    ELSE AdvError(FmtFailed, "", "Unknown error")

\* ai_advisor.go:93-99  the result for the status completed.
CompletedResult(reply) ==
    IF reply.msgs.n > 0
    THEN AdvText(FmtAnswer, reply.id, reply.msgs.FinalAnswer)
    ELSE AdvText(FmtRaw, "", "raw poll payload")

\* (mutant: the test for an empty error text is missing)
MutFailedReasonNoEmptyTest(msgs) ==
    IF msgs.n > 0 THEN msgs.ErrorMessage ELSE "Unknown error"

\* ai_advisor.go:102-108  errMsg for the status failed.
FailedReason(msgs) ==
    IF msgs.n > 0 /\ msgs.ErrorMessage # ""
    THEN msgs.ErrorMessage ELSE "Unknown error"

PollOutcome(reply) ==
    IF reply.kind = "err" THEN PollFailedResult("API error 502")
    ELSE IF reply.kind = "unparsable" THEN PollUnparsableResult
    ELSE IF ~IsTerminal(reply.status) THEN NoResult
    ELSE IF reply.status = "SESSION_STATUS_COMPLETED"
    THEN CompletedResult(reply)
    ELSE AdvError(FmtFailed, "", FailedReason(reply.msgs))

\* The path of the handler a poll reply selects.
PollCause(reply) ==
    IF reply.kind = "err" THEN "poll_failed"
    ELSE IF reply.kind = "unparsable" THEN "poll_parse"
    ELSE IF reply.status = "SESSION_STATUS_COMPLETED" THEN "completed"
    ELSE IF reply.status = "SESSION_STATUS_FAILED" THEN "failed"
    ELSE "none"

\* (mutant: the poll is addressed to the session_id argument)
MutPollHandleArgument == argSession

\* ai_advisor.go:71  the identifier in the path of the GET: resp.ID.
PollHandle == respID

\* ai_advisor.go:71-110  one poll: the request, the reply after latency
\* seconds, and the switch on the status.
Poll ==
    /\ apc = "poll"
    /\ \E reply \in PollReplies :
        /\ polls' = polls + 1
        /\ pollTarget' = PollHandle
        /\ wall' = wall + latency
        /\ termAt' = IF reply.kind = "ok"
                        /\ reply.status \in {"SESSION_STATUS_COMPLETED",
                                             "SESSION_STATUS_FAILED"}
                        /\ termAt = 0
                     THEN polls + 1 ELSE termAt
        /\ advResult' = PollOutcome(reply)
        /\ cause' = PollCause(reply)
        /\ lastReply' = IF PollCause(reply) = "none" THEN NoReply ELSE reply
        /\ apc' = IF PollOutcome(reply) = NoResult
                  THEN "loop" ELSE "returned"
    /\ UNCHANGED <<inv, argSession, submitReq, submits, respID, elapsed,
                   latency, token, resumed>>
    /\ UNCHANGED <<bulkVars, toolVars>>

\* ai_advisor.go:113-116  the loop ended without a terminal status.
Timeout ==
    /\ apc = "loop"
    /\ ~LoopContinues
    /\ advResult' = AdvError(FmtTimeout, respID, "1m30s")
    /\ cause' = "timeout"
    /\ apc' = "returned"
    /\ UNCHANGED <<inv, argSession, submitReq, submits, respID, elapsed,
                   polls, pollTarget, latency, wall, termAt, lastReply,
                   token, resumed>>
    /\ UNCHANGED <<bulkVars, toolVars>>

AdvNext ==
    \/ InvokeNoQuestion
    \/ InvokeSubmitFails
    \/ InvokeSubmitUnparsable
    \/ InvokeSubmit
    \/ Sleep
    \/ Poll
    \/ Timeout

(***************************************************************************)
(* kentik_query_data: buildQueryObject.  Only the arguments that decide    *)
(* the time window, the devices and the sort key are modelled; dimension,  *)
(* topx, depth, fastData and the filters are copied into the map without   *)
(* affecting these.                                                        *)
(***************************************************************************)
\* request.RequireString / RequireFloat fail for an argument that is absent.
Absent == "<absent>"
NoNumber == -1

\* query.go:755  lookback := 3600.0, in half seconds.
DefaultLookbackHalves == 7200

\* lookback_seconds is a float64: the values are given in half seconds, so
\* that 0.5 s and 1 s are told apart.
LookbackArgs == {NoNumber, 0, 1, 2, DefaultLookbackHalves}

\* int(lookback): the conversion of a non-negative float64 truncates.
IntOf(halves) == halves \div 2

MetricArgs == {Absent, "bytes", "fps", "unique_src_ip", "bits"}
TimeArgs == {Absent, "", "2024-01-01 00:00:00"}
DeviceArgs == {Absent, "", "edge1"}

QueryArgs ==
    [metric : MetricArgs, lookback : LookbackArgs, starting_time : TimeArgs,
     ending_time : TimeArgs, device_name : DeviceArgs]

\* query.go:781-793  the default sort key of a metric.
DefaultOutsort(metric) ==
    CASE metric \in {"bytes", "in_bytes", "out_bytes"} -> "avg_bits_per_sec"
      [] metric \in {"packets", "in_packets", "out_packets"} -> "avg_pkts_per_sec"
      [] metric = "fps" -> "avg_flows_per_sec"
      [] metric \in {"unique_src_ip", "unique_dst_ip"} -> "max_ips"
      [] OTHER -> "avg_bits_per_sec"

\* query.go:755-758  lookback: the argument if it is given, else 3600.
Lookback(a) ==
    IF a.lookback = NoNumber THEN DefaultLookbackHalves ELSE a.lookback

\* A string argument that is given and not empty.
Given(x) == x # Absent /\ x # ""

\* query.go:802, 813-816  query["lookback_seconds"].
LookbackSeconds(a) ==
    IF Given(a.starting_time) THEN 0 ELSE IntOf(Lookback(a))

\* query.go:795-819  the map buildQueryObject returns; a key that is not
\* set holds Absent.
BuildQueryObject(a) ==
    [metric |-> a.metric,
     outsort |-> DefaultOutsort(a.metric),
     lookback_seconds |-> LookbackSeconds(a),
     all_selected |-> ~Given(a.device_name),
     device_name |-> IF Given(a.device_name) THEN a.device_name ELSE Absent,
     starting_time |-> IF Given(a.starting_time)
                       THEN a.starting_time ELSE Absent,
     ending_time |-> IF Given(a.ending_time) THEN a.ending_time ELSE Absent]

NoQuery ==
    [metric |-> Absent, outsort |-> "", lookback_seconds |-> 0,
     all_selected |-> FALSE, device_name |-> Absent,
     starting_time |-> Absent, ending_time |-> Absent]

\* No query is being built.
QueryIdle ==
    /\ qpc = "idle"
    /\ qArgs = [metric |-> Absent, lookback |-> NoNumber,
                starting_time |-> Absent, ending_time |-> Absent,
                device_name |-> Absent]
    /\ query = NoQuery

\* A request for kentik_query_data has arrived.
QueryInit ==
    /\ qpc = "start"
    /\ qArgs \in QueryArgs
    /\ query = NoQuery

\* query.go:736-739  the required metric is missing: no query is built.
BuildRefused ==
    /\ qpc = "start"
    /\ qArgs.metric = Absent
    /\ qpc' = "refused"
    /\ UNCHANGED <<qArgs, query>>
    /\ UNCHANGED <<bulkVars, advVars, listVars, storeVars>>

\* query.go:735-828  buildQueryObject returns the map.
Build ==
    /\ qpc = "start"
    /\ qArgs.metric # Absent
    /\ qpc' = "built"
    /\ query' = BuildQueryObject(qArgs)
    /\ UNCHANGED qArgs
    /\ UNCHANGED <<bulkVars, advVars, listVars, storeVars>>

QueryNext ==
    \/ BuildRefused
    \/ Build

(***************************************************************************)
(* Several invocations of kentik_list_all_interfaces at once, on the same  *)
(* client.  Each call of the handler makes its own channel sem             *)
(* (interfaces.go:96 is inside the handler) and starts one goroutine per   *)
(* active device; only the gate and the requests are modelled here, the    *)
(* results and the barrier are those of the single listing above.          *)
(***************************************************************************)
Listings == 1..MaxListings
ListingTasks == 1..MaxListingDevices

\* No listing of this kind is running.
ListingsIdle ==
    /\ lsem = [l \in Listings |-> 0]
    /\ ltpc = [l \in Listings |-> [i \in ListingTasks |-> "none"]]

\* interfaces.go:95-101  every invocation has listed its active devices and
\* started their goroutines, which are at sem <- struct{}{}.
ListingsInit ==
    /\ lsem = [l \in Listings |-> 0]
    /\ \E n \in [Listings -> 0..MaxListingDevices] :
           ltpc = [l \in Listings |->
                     [i \in ListingTasks |->
                        IF i <= n[l] THEN "blocked" ELSE "none"]]

\* interfaces.go:103  sem <- struct{}{} on the channel of invocation l.
ListingAcquire(l, i) ==
    /\ ltpc[l][i] = "blocked"
    /\ lsem[l] < SemCap
    /\ lsem' = [lsem EXCEPT ![l] = @ + 1]
    /\ ltpc' = [ltpc EXCEPT ![l][i] = "sleeping"]
    /\ UNCHANGED <<bulkVars, advVars, queryVars, storeVars>>

\* interfaces.go:107-109  the sleep is over; the request is sent.
ListingStartFetch(l, i) ==
    /\ ltpc[l][i] = "sleeping"
    /\ ltpc' = [ltpc EXCEPT ![l][i] = "fetching"]
    /\ UNCHANGED lsem
    /\ UNCHANGED <<bulkVars, advVars, queryVars, storeVars>>

\* interfaces.go:104, 109-118  client.V5 returns, the result is stored and
\* the deferred <-sem gives the slot back.
ListingRelease(l, i) ==
    /\ ltpc[l][i] = "fetching"
    /\ lsem' = [lsem EXCEPT ![l] = @ - 1]
    /\ ltpc' = [ltpc EXCEPT ![l][i] = "done"]
    /\ UNCHANGED <<bulkVars, advVars, queryVars, storeVars>>

ListingsNext ==
    \/ \E l \in Listings : \E i \in ListingTasks : ListingAcquire(l, i)
    \/ \E l \in Listings : \E i \in ListingTasks : ListingStartFetch(l, i)
    \/ \E l \in Listings : \E i \in ListingTasks : ListingRelease(l, i)

\* The requests for interfaces that are outstanding, over all invocations.
FetchesInFlight ==
    {t \in Listings \X ListingTasks : ltpc[t[1]][t[2]] = "fetching"}

(***************************************************************************)
(* The named-context store: kentik_save_context and kentik_delete_context  *)
(* on the file ~/.kentik-mcp-contexts.json.  A handler call reads the      *)
(* whole file (loadContexts), changes its copy, and writes the whole file  *)
(* (saveContexts); nothing locks the file between the two.                 *)
(***************************************************************************)
Calls == 1..MaxCalls

ContextNames == {"borders", "Borders", "core"}
Descriptions == {"d1", "d2"}

\* strings.ToLower on the names above.
ToLower(name) == IF name = "Borders" THEN "borders" ELSE name

\* contexts.go:16-29  a QueryContext: its name and, for all the fields the
\* request fills in, its description.
QueryContext(name, desc) == [Name |-> name, Description |-> desc]

\* The names of a list of contexts are pairwise distinct ignoring case.
DistinctIgnoringCase(cs) ==
    \A i, j \in 1..Len(cs) :
        (ToLower(cs[i].Name) = ToLower(cs[j].Name)) => i = j

\* The files the store may hold when the tools start.
StoreFiles ==
    {cs \in UNION {[1..n -> [Name : ContextNames, Description : Descriptions]] :
                     n \in 0..2} : DistinctIgnoringCase(cs)}

\* The calls of the two tools.
StoreOps ==
    [kind : {"save"}, name : ContextNames, desc : Descriptions]
    \cup [kind : {"delete"}, name : ContextNames, desc : {""}]

NoOp == [kind |-> "none", name |-> "", desc |-> ""]

\* (mutant: the names are compared as they are written)
MutSameNameCaseSensitive(a, b) == a = b

\* contexts.go:152, 227-231  strings.ToLower(c.Name) == strings.ToLower(name).
SameName(a, b) == ToLower(a) = ToLower(b)

\* contexts.go:150-157  the index of the first context of that name, or 0.
FirstMatch(cs, name) ==
    IF \E i \in 1..Len(cs) : SameName(cs[i].Name, name)
    THEN CHOOSE i \in 1..Len(cs) :
             /\ SameName(cs[i].Name, name)
             /\ \A j \in 1..(i - 1) : ~SameName(cs[j].Name, name)
    ELSE 0

\* contexts.go:149-160  replace the existing context or append.
SaveInto(cs, qc) ==
    IF FirstMatch(cs, qc.Name) # 0
    THEN [cs EXCEPT ![FirstMatch(cs, qc.Name)] = qc]
    ELSE Append(cs, qc)

\* contexts.go:227-236  the contexts whose name is not the one to delete.
DeleteFrom(cs, name) == SelectSeq(cs, LAMBDA c : ~SameName(c.Name, name))

\* No call of the two tools has been made.
StoreIdle ==
    /\ store = <<>>
    /\ spc = [p \in Calls |-> "idle"]
    /\ sop = [p \in Calls |-> NoOp]
    /\ scf = [p \in Calls |-> <<>>]
    /\ sres = [p \in Calls |-> "none"]

\* The file is one of StoreFiles and no call is running.
StoreInit ==
    /\ store \in StoreFiles
    /\ spc = [p \in Calls |-> "idle"]
    /\ sop = [p \in Calls |-> NoOp]
    /\ scf = [p \in Calls |-> <<>>]
    /\ sres = [p \in Calls |-> "none"]

\* contexts.go:144, 222  loadContexts() returns the contents of the file.
StoreLoad(p, op) ==
    /\ spc[p] \in {"idle", "done"}
    /\ spc' = [spc EXCEPT ![p] = "loaded"]
    /\ sop' = [sop EXCEPT ![p] = op]
    /\ scf' = [scf EXCEPT ![p] = store]
    /\ sres' = [sres EXCEPT ![p] = "none"]
    /\ UNCHANGED store
    /\ UNCHANGED <<bulkVars, advVars, queryVars, listVars>>

\* contexts.go:145-147, 223-225  loadContexts() fails (the file cannot be
\* read, or its contents are not JSON).
StoreLoadFails(p, op) ==
    /\ spc[p] \in {"idle", "done"}
    /\ spc' = [spc EXCEPT ![p] = "done"]
    /\ sop' = [sop EXCEPT ![p] = op]
    /\ scf' = [scf EXCEPT ![p] = <<>>]
    /\ sres' = [sres EXCEPT ![p] = "Failed to load contexts"]
    /\ UNCHANGED store
    /\ UNCHANGED <<bulkVars, advVars, queryVars, listVars>>

\* contexts.go:149-166  kentik_save_context writes the changed list.
SaveWrite(p) ==
    /\ spc[p] = "loaded"
    /\ sop[p].kind = "save"
    /\ store' = SaveInto(scf[p], QueryContext(sop[p].name, sop[p].desc))
    /\ spc' = [spc EXCEPT ![p] = "done"]
    /\ scf' = [scf EXCEPT ![p] = <<>>]
    /\ sres' = [sres EXCEPT ![p] = "saved"]
    /\ UNCHANGED sop
    /\ UNCHANGED <<bulkVars, advVars, queryVars, listVars>>

\* contexts.go:237-239  kentik_delete_context finds no context of that name.
DeleteNotFound(p) ==
    /\ spc[p] = "loaded"
    /\ sop[p].kind = "delete"
    /\ DeleteFrom(scf[p], sop[p].name) = scf[p]
    /\ spc' = [spc EXCEPT ![p] = "done"]
    /\ scf' = [scf EXCEPT ![p] = <<>>]
    /\ sres' = [sres EXCEPT ![p] = "not found"]
    /\ UNCHANGED <<store, sop>>
    /\ UNCHANGED <<bulkVars, advVars, queryVars, listVars>>

\* contexts.go:240-246  kentik_delete_context writes the shortened list.
DeleteWrite(p) ==
    /\ spc[p] = "loaded"
    /\ sop[p].kind = "delete"
    /\ DeleteFrom(scf[p], sop[p].name) # scf[p]
    /\ store' = DeleteFrom(scf[p], sop[p].name)
    /\ spc' = [spc EXCEPT ![p] = "done"]
    /\ scf' = [scf EXCEPT ![p] = <<>>]
    /\ sres' = [sres EXCEPT ![p] = "deleted"]
    /\ UNCHANGED sop
    /\ UNCHANGED <<bulkVars, advVars, queryVars, listVars>>

\* contexts.go:162-164, 242-244  saveContexts() fails before it has written
\* (the file cannot be opened for writing).
StoreWriteFails(p) ==
    /\ spc[p] = "loaded"
    /\ (sop[p].kind = "delete") => DeleteFrom(scf[p], sop[p].name) # scf[p]
    /\ spc' = [spc EXCEPT ![p] = "done"]
    /\ scf' = [scf EXCEPT ![p] = <<>>]
    /\ sres' = [sres EXCEPT ![p] = "Failed to save"]
    /\ UNCHANGED <<store, sop>>
    /\ UNCHANGED <<bulkVars, advVars, queryVars, listVars>>

\* The tools other than the listing and the advisor are at rest.
ToolsIdle == QueryIdle /\ ListingsIdle /\ StoreIdle

(***************************************************************************)
(* Specifications: one invocation of the listing, and the advisor invoked  *)
(* up to MaxInvocations times, each with the other tool at rest.           *)
(***************************************************************************)
\* No bulk listing is running.
BulkIdle ==
    /\ gwDevices = <<>>
    /\ hpc = "start"
    /\ activeDevices = <<>>
    /\ results = <<>>
    /\ loopIdx = 0
    /\ tpc = [i \in Tasks |-> "none"]
    /\ sem = 0
    /\ wg = 0
    /\ fetchCalls = [i \in Tasks |-> 0]
    /\ output = NoOutput
    /\ cancelled = FALSE

AdvisorInit == BulkIdle /\ AdvInit /\ ToolsIdle

SpecAdvisor == AdvisorInit /\ [][AdvNext]_vars

BulkNext ==
    \/ ListDevicesFails
    \/ ListDevicesUnparsable
    \/ ListDevices
    \/ Spawn
    \/ \E i \in Tasks : Acquire(i)
    \/ \E i \in Tasks : StartFetch(i)
    \/ \E i \in Tasks : FinishFetch(i)
    \/ \E i \in Tasks : Release(i)
    \/ \E i \in Tasks : Done(i)
    \/ Wait
    \/ MarshalReturn

ListingInit == BulkInit /\ AdvInit /\ ToolsIdle

SpecBulk == ListingInit /\ [][BulkNext]_vars

\* The listing under fair scheduling: while some step of the handler or of
\* one of its goroutines is possible, a step is eventually taken.  The Go
\* scheduler runs every runnable goroutine, and every Gateway call returns
\* (the http.Client has a timeout), so no enabled step waits for ever.
SpecBulkFair == ListingInit /\ [][BulkNext]_vars /\ WF_vars(BulkNext)

\* One invocation of the listing whose caller may cancel the request context.
CancelNext ==
    \/ BulkNext
    \/ Cancel

SpecBulkCancel == ListingInit /\ [][CancelNext]_vars

\* One request for kentik_query_data, the other tools at rest.
QueryOnlyInit ==
    BulkIdle /\ AdvInit /\ QueryInit /\ ListingsIdle /\ StoreIdle

\* Several invocations of the listing at once, the other tools at rest.
ConcurrentInit ==
    BulkIdle /\ AdvInit /\ QueryIdle /\ ListingsInit /\ StoreIdle

\* The two context tools called one call after the other: every call is
\* call 1, which begins when the one before it has returned.
SequentialNext ==
    \/ \E op \in StoreOps : StoreLoad(1, op)
    \/ \E op \in StoreOps : StoreLoadFails(1, op)
    \/ SaveWrite(1)
    \/ DeleteNotFound(1)
    \/ DeleteWrite(1)
    \/ StoreWriteFails(1)

StoreOnlyInit ==
    BulkIdle /\ AdvInit /\ QueryIdle /\ ListingsIdle /\ StoreInit

SpecStore == StoreOnlyInit /\ [][SequentialNext]_vars

\* The two context tools called at the same time, each call made once: the
\* server runs each request's handler in a goroutine of its own.
RacingNext ==
    \/ \E p \in Calls : \E op \in StoreOps :
           spc[p] = "idle" /\ StoreLoad(p, op)
    \/ \E p \in Calls : \E op \in StoreOps :
           spc[p] = "idle" /\ StoreLoadFails(p, op)
    \/ \E p \in Calls : SaveWrite(p)
    \/ \E p \in Calls : DeleteNotFound(p)
    \/ \E p \in Calls : DeleteWrite(p)
    \/ \E p \in Calls : StoreWriteFails(p)

SpecStoreRace == StoreOnlyInit /\ [][RacingNext]_vars

SpecListings == ConcurrentInit /\ [][ListingsNext]_vars

SpecQuery == QueryOnlyInit /\ [][QueryNext]_vars

\* The advisor invoked as in SpecAdvisor, next to a listing whose reply to
\* GET /devices cannot be parsed: every payload the two tools parse.
ParseNext ==
    \/ AdvNext
    \/ ListDevicesUnparsable

SpecParse == AdvisorInit /\ [][ParseNext]_vars

(***************************************************************************)
(* Properties of kentik_list_all_interfaces (checked under SpecBulk).      *)
(***************************************************************************)
\* The goroutines between acquiring a slot of sem and releasing it.
InFlight == {i \in Tasks : tpc[i] \in {"sleeping", "fetching", "fetched"}}

\* The goroutines that have stored their result.
Stored == {i \in Tasks : tpc[i] \in {"fetched", "released", "done"}}

\* The handler is past wg.Wait() (it returned through json.Marshal).
PastBarrier ==
    \/ hpc = "marshal"
    \/ hpc = "returned" /\ output.text \in {"json", "Failed to marshal results"}

\* C1: at every instant at most 4 per-device interface fetches are between
\* acquiring a gate slot and releasing it, whatever the number of active
\* devices and the interleaving of the goroutines.
C1_AtMostFourInFlight == Cardinality(InFlight) <= 4

\* C1 witness: four fetches hold the four slots while a fifth goroutine is
\* blocked at the gate.
C1_GateFullAndOneBlocked ==
    /\ Cardinality(InFlight) = 4
    /\ \E i \in Tasks : tpc[i] = "blocked"

\* C2: the result at position i carries the id and the name of the i-th
\* active device of the device list, in every state (so for every completion
\* order): a stored slot holds its own device, a slot not yet stored is still
\* zero, and the marshalled output keeps the positions.
C2_ResultsInInputOrder ==
    /\ \A i \in 1..Len(results) :
          IF i \in Stored
          THEN /\ results[i].DeviceID = FilterActive(gwDevices)[i].ID
               /\ results[i].DeviceName = FilterActive(gwDevices)[i].DeviceName
          ELSE results[i] = ZeroResult
    /\ (hpc = "returned" /\ output.text = "json") =>
          \A i \in 1..Len(output.items) :
             /\ output.items[i].device_id = FilterActive(gwDevices)[i].ID
             /\ output.items[i].device_name = FilterActive(gwDevices)[i].DeviceName

\* C2 witness: results are stored out of input order (the third active
\* device has finished, the first has not stored anything yet) in a list
\* whose positions and ids differ (an inactive device precedes).
C2_StoredOutOfOrder ==
    /\ Len(results) >= 3
    /\ tpc[3] = "done"
    /\ tpc[1] \in {"blocked", "sleeping", "fetching"}
    /\ results[1] = ZeroResult
    /\ results[3].DeviceID = 4
    /\ activeDevices[3].ID = 4

\* An output item has exactly one of payload and error.
ExactlyOneSet(item) == (item.interfaces # <<"null">>) # item.has_error

\* C3 as claimed: when the listing returns (the device list was fetched and
\* parsed), the output has one result per active device and every result has
\* exactly one of payload and error.
C3_OutputCompleteAsClaimed ==
    (hpc = "returned" /\ PastBarrier) =>
        /\ ~output.isError
        /\ Len(output.items) = Len(activeDevices)
        /\ \A i \in 1..Len(output.items) : ExactlyOneSet(output.items[i])

\* C4 as claimed: for every set of failing fetches, exactly their results
\* carry an error, the others carry their payload, and the batch is returned
\* as a successful tool result.
C4_BatchSucceedsAsClaimed ==
    (hpc = "returned" /\ PastBarrier) =>
        /\ \A i \in 1..Len(results) :
              \/ results[i].Error # "" /\ results[i].Interfaces.isNil
              \/ results[i].Error = "" /\ ~results[i].Interfaces.isNil
        /\ ~output.isError

\* C5: the handler is past wg.Wait() only when every goroutine has finished,
\* so json.Marshal reads results when no goroutine can write it any more.
C5_FullBarrier ==
    PastBarrier =>
        /\ loopIdx = Len(activeDevices)
        /\ \A i \in 1..Len(activeDevices) : tpc[i] = "done"

\* C5 witness: the handler is about to marshal the results of five devices,
\* more than the gate admits at once.
C5_MarshalAfterFiveDone ==
    /\ hpc = "marshal"
    /\ Len(activeDevices) = 5
    /\ \A i \in 1..5 : tpc[i] = "done"

(***************************************************************************)
(* Properties of kentik_ai_advisor (checked under SpecAdvisor).            *)
(***************************************************************************)
\* C6: once a poll reply shows the status completed or failed, no further
\* poll is sent: the invocation has returned, with the outcome of that
\* status, after exactly as many polls as the number of that reply.
C6_StopsAtFirstTerminal ==
    termAt # 0 =>
        /\ apc = "returned"
        /\ polls = termAt
        /\ cause \in {"completed", "failed"}
        /\ advResult.fmt \in {FmtAnswer, FmtRaw, FmtFailed}

\* C6 witness: the third reply is the first terminal one (completed) and the
\* answer is returned after three polls.
C6_AnswerAfterThreePolls ==
    /\ apc = "returned"
    /\ termAt = 3
    /\ polls = 3
    /\ elapsed = 6
    /\ advResult = AdvText(FmtAnswer, "s1", "answer")

\* C7: a loop that saw no terminal status and no failed poll sends exactly
\* MaxWait / Interval = 45 polls and then returns the timeout result, which
\* carries the identifier of the submission reply.
C7_TimeoutAfterAllPolls ==
    /\ apc \in {"loop", "poll"} => polls <= MaxWait \div Interval
    /\ (apc = "poll") => polls < MaxWait \div Interval
    /\ (apc = "loop") => elapsed = Interval * polls
    /\ cause = "timeout" =>
          /\ polls = MaxWait \div Interval
          /\ polls = 45
          /\ termAt = 0
          /\ advResult.isError
          /\ advResult.fmt = FmtTimeout
          /\ advResult.session = respID

\* C7 witness: a timeout after 45 polls whose result carries the id the
\* submission reply gave (not the session_id argument).
C7_TimedOutWithReplyId ==
    /\ cause = "timeout"
    /\ polls = 45
    /\ argSession = "s1"
    /\ respID = "s2"
    /\ advResult.session = "s2"

\* C8 as claimed: the real time since the submission returned never exceeds
\* the deadline of 90 s.
C8_WallClockWithinDeadlineAsClaimed == wall <= MaxWait

\* C9 as claimed: an invocation given the identifier of a timeout result
\* resumes by polling that handle: it sends no new submission and its polls
\* are addressed to that identifier.
C9_ResumesByPollingAsClaimed ==
    resumed => /\ submits = 0
               /\ polls > 0 => pollTarget = token

\* C9 amended: a timed-out invocation does nothing more (the next step is a
\* new invocation); an invocation given the identifier of the timeout result
\* sends the question again as a follow-up (PUT with that identifier) and
\* polls the identifier of the reply to that submission.
C9_ResumeResubmits ==
    [][ /\ (apc = "returned" /\ cause = "timeout") =>
              (inv' = inv + 1 /\ polls' = 0)
        /\ (apc = "returned") => (polls' = polls \/ inv' = inv + 1)
        /\ (resumed' /\ submits' > 0) =>
              /\ submits' = 1
              /\ submitReq' = [method |-> "PUT", id |-> token', prompt |-> "question"]
        /\ (resumed' /\ polls' > 0) => (submits' = 1 /\ pollTarget' = respID')
      ]_vars

\* C9 witness: after a timeout the next invocation was given the identifier,
\* sent its PUT and polls the same handle again.
C9_ResumedPollsSameHandle ==
    /\ resumed
    /\ token = "s1"
    /\ submitReq = [method |-> "PUT", id |-> "s1", prompt |-> "question"]
    /\ polls > 0
    /\ pollTarget = "s1"

\* C10: submission failure, poll failure, timeout and a failed session are
\* told apart by the text of the result: each has a format of its own.
C10_OutcomesDistinguishable ==
    /\ Cardinality({FmtSubmitFailed, FmtPollFailed, FmtTimeout, FmtFailed}) = 4
    /\ apc = "returned" =>
          /\ (cause = "submit_failed") <=> (advResult.fmt = FmtSubmitFailed)
          /\ (cause = "poll_failed") <=> (advResult.fmt = FmtPollFailed)
          /\ (cause = "timeout") <=> (advResult.fmt = FmtTimeout)
          /\ (cause = "failed") <=> (advResult.fmt = FmtFailed)

\* C10 witness: a poll failed after an earlier poll had succeeded, and the
\* result says so.
C10_PollFailureReported ==
    /\ apc = "returned"
    /\ cause = "poll_failed"
    /\ polls = 2
    /\ advResult.isError
    /\ advResult.fmt = FmtPollFailed

(***************************************************************************)
(* C11: when the submission call fails the advisor returns at once with    *)
(* the submission-failure outcome: exactly one submission call has been    *)
(* made (no retry) and no poll is ever issued.                             *)
(***************************************************************************)
C11_SubmitFailureEndsInvocation ==
    (cause = "submit_failed") =>
        /\ apc = "returned"
        /\ submits = 1
        /\ polls = 0
        /\ pollTarget = ""
        /\ elapsed = 0
        /\ advResult.isError
        /\ advResult.fmt = FmtSubmitFailed

\* A resubmission to an existing session failed: one PUT, no poll.
C11_ResubmissionFailed ==
    /\ cause = "submit_failed"
    /\ apc = "returned"
    /\ submitReq = [method |-> "PUT", id |-> "s1", prompt |-> "question"]
    /\ submits = 1
    /\ polls = 0
    /\ advResult.fmt = FmtSubmitFailed

(***************************************************************************)
(* C12: when a poll call fails the advisor returns at once with the        *)
(* poll-failure error: the failed poll is not retried and is the last one  *)
(* of the invocation (one poll per sleep, none after the failure),         *)
(* whatever the earlier polls showed.                                      *)
(***************************************************************************)
C12_PollFailureEndsInvocation ==
    (cause = "poll_failed") =>
        /\ apc = "returned"
        /\ lastReply.kind = "err"
        /\ advResult.isError
        /\ advResult.fmt = FmtPollFailed
        /\ submits = 1
        /\ polls >= 1
        /\ elapsed = Interval * polls

\* The third poll failed after two polls that showed a session in progress.
C12_ThirdPollFailed ==
    /\ cause = "poll_failed"
    /\ apc = "returned"
    /\ polls = 3
    /\ elapsed = 3 * Interval
    /\ advResult.fmt = FmtPollFailed

(***************************************************************************)
(* C13: when the polled status is failed the advisor returns a failure     *)
(* outcome whose reason is the error text of the last message if that text *)
(* is not empty, and the default reason "Unknown error" if the text is     *)
(* empty or the reply carries no message.                                  *)
(***************************************************************************)
C13_FailedReasonFromLastMessage ==
    (cause = "failed") =>
        /\ apc = "returned"
        /\ lastReply.status = "SESSION_STATUS_FAILED"
        /\ advResult.isError
        /\ advResult.fmt = FmtFailed
        /\ (lastReply.msgs.n > 0 /\ lastReply.msgs.ErrorMessage # "")
              => advResult.detail = lastReply.msgs.ErrorMessage
        /\ (lastReply.msgs.n = 0 \/ lastReply.msgs.ErrorMessage = "")
              => advResult.detail = "Unknown error"

\* A failed session whose last message has an empty error text.
C13_FailedWithEmptyErrorText ==
    /\ cause = "failed"
    /\ apc = "returned"
    /\ lastReply.msgs.n > 0
    /\ lastReply.msgs.ErrorMessage = ""
    /\ advResult.detail = "Unknown error"

(***************************************************************************)
(* C14: when the polled status is completed the advisor returns a          *)
(* successful answer, never an error: the final answer of the last         *)
(* message, tagged with the session id of the reply, when there is at      *)
(* least one message, and the raw poll payload when there is none.         *)
(***************************************************************************)
C14_CompletedIsSuccess ==
    (cause = "completed") =>
        /\ apc = "returned"
        /\ lastReply.status = "SESSION_STATUS_COMPLETED"
        /\ ~advResult.isError
        /\ (lastReply.msgs.n > 0) =>
              /\ advResult.fmt = FmtAnswer
              /\ advResult.session = lastReply.id
              /\ advResult.detail = lastReply.msgs.FinalAnswer
        /\ (lastReply.msgs.n = 0) =>
              /\ advResult.fmt = FmtRaw
              /\ advResult.detail = "raw poll payload"

\* A completed session without any message: the raw payload is the answer.
C14_CompletedWithoutMessages ==
    /\ cause = "completed"
    /\ apc = "returned"
    /\ lastReply.msgs.n = 0
    /\ ~advResult.isError
    /\ advResult.fmt = FmtRaw

(***************************************************************************)
(* C15: an invocation that carries a question sends exactly one            *)
(* submission request: a PUT whose body holds the supplied session id and  *)
(* the question when the session_id argument is not empty, and a POST      *)
(* whose body holds only the question when it is empty.  (A call without   *)
(* the required question argument is refused before any request.)          *)
(***************************************************************************)
C15_PutIffSessionSupplied ==
    /\ (apc # "idle" /\ cause # "no_question") =>
          /\ submits = 1
          /\ submitReq.prompt = "question"
          /\ (argSession # "") =>
                (submitReq.method = "PUT" /\ submitReq.id = argSession)
          /\ (argSession = "") =>
                (submitReq.method = "POST" /\ submitReq.id = "")
    /\ (cause = "no_question") => (submits = 0 /\ submitReq = NoRequest)

\* A follow-up on session s2 was answered: one PUT carrying s2 was sent.
C15_FollowUpSentAsPut ==
    /\ apc = "returned"
    /\ cause = "completed"
    /\ argSession = "s2"
    /\ submits = 1
    /\ submitReq.method = "PUT"
    /\ submitReq.id = "s2"

(***************************************************************************)
(* C16 (as amended): a payload that cannot be parsed ends the invocation   *)
(* with an error result that names the parse failure: "Failed to parse AI  *)
(* Advisor response" for the submission reply (and no poll follows),       *)
(* "Failed to parse poll response" for a poll reply, "Failed to parse      *)
(* devices" for the device list (and no interface is fetched).  The raw    *)
(* payload is not presented.                                               *)
(***************************************************************************)
C16_ParseFailureIsError ==
    /\ (cause = "submit_parse") =>
          /\ apc = "returned"
          /\ advResult.isError
          /\ advResult.fmt = FmtSubmitParse
          /\ polls = 0
    /\ (cause = "poll_parse") =>
          /\ apc = "returned"
          /\ lastReply.kind = "unparsable"
          /\ advResult.isError
          /\ advResult.fmt = FmtPollParse
    /\ (hpc = "returned") =>
          /\ output = ToolResultError("Failed to parse devices")
          /\ \A i \in Tasks : fetchCalls[i] = 0

\* The second poll reply and the device list were both unparsable.
C16_PollAndDeviceListUnparsable ==
    /\ cause = "poll_parse"
    /\ apc = "returned"
    /\ polls = 2
    /\ advResult.isError
    /\ hpc = "returned"
    /\ output.isError

\* C16 as claimed: an unparsable payload is presented raw, not as a failure.
C16_RawPayloadPresentedAsClaimed ==
    /\ (cause \in {"submit_parse", "poll_parse"}) =>
          (~advResult.isError /\ advResult.fmt = FmtRaw)
    /\ (hpc = "returned") => ~output.isError

(***************************************************************************)
(* C17 (as claimed): when the caller cancels the request context while     *)
(* fetches are outstanding, the listing returns without waiting for the    *)
(* remaining goroutines, and a result that arrives after the cancellation  *)
(* is discarded: a cancelled listing that has passed the barrier has a     *)
(* goroutine it did not wait for, and a cancelled listing that has         *)
(* returned holds a slot that was never filled.                            *)
(***************************************************************************)
C17_CancelAbandonsTasksAsClaimed ==
    /\ (cancelled /\ PastBarrier) =>
          \E i \in 1..Len(activeDevices) : tpc[i] # "done"
    /\ (cancelled /\ hpc = "returned") =>
          \E i \in 1..Len(results) : results[i] = ZeroResult

\* The context was cancelled with fetches outstanding, and the listing still
\* returned every device's result after all its goroutines were done.
C17_CancelledListingReturnedAll ==
    /\ cancelled
    /\ hpc = "returned"
    /\ Len(activeDevices) >= 2
    /\ \A i \in 1..Len(activeDevices) : tpc[i] = "done"
    /\ output.text = "json"
    /\ Len(output.items) = Len(activeDevices)

\* The Gateway's device list holds no device whose status is "V".
NoActiveDevice == \A k \in 1..Len(gwDevices) : gwDevices[k].Status # "V"

(***************************************************************************)
(* C18: when the device list holds no active device (it is empty, or all   *)
(* its devices are inactive) the listing starts no goroutine, issues no    *)
(* per-device interface request, and returns the empty array as a          *)
(* successful result.                                                      *)
(***************************************************************************)
C18_EmptyBatchFetchesNothing ==
    NoActiveDevice =>
        /\ \A i \in Tasks : fetchCalls[i] = 0 /\ tpc[i] = "none"
        /\ wg = 0
        /\ (hpc = "returned" /\ PastBarrier) => output = ToolResultItems(<<>>)

\* A list of two inactive devices was listed: empty array, nothing fetched.
C18_OnlyInactiveDevicesListed ==
    /\ Len(gwDevices) = 2
    /\ NoActiveDevice
    /\ hpc = "returned"
    /\ PastBarrier
    /\ output = ToolResultItems(<<>>)
    /\ \A i \in Tasks : fetchCalls[i] = 0

(***************************************************************************)
(* C20 (as claimed): the listing covers all devices: when it returns its   *)
(* array, the array holds exactly one entry for every device of the        *)
(* Gateway's device list, whatever the status of the device.               *)
(***************************************************************************)
C20_EveryDeviceListedAsClaimed ==
    (hpc = "returned" /\ output.text = "json") =>
        \A k \in 1..Len(gwDevices) :
            Cardinality({i \in 1..Len(output.items) :
                            output.items[i].device_id = gwDevices[k].ID}) = 1

\* Three devices, the second inactive: the array returned has two entries,
\* for the first and the third device.
C20_InactiveDeviceLeftOut ==
    /\ hpc = "returned"
    /\ output.text = "json"
    /\ Len(gwDevices) = 3
    /\ gwDevices[InactivePos].Status = "D"
    /\ Len(output.items) = 2
    /\ \A i \in 1..2 : output.items[i].device_id # gwDevices[InactivePos].ID

(***************************************************************************)
(* C21 (as claimed): in the query object a non-zero lookback_seconds       *)
(* overrides starting_time and ending_time: when the request gives a       *)
(* lookback of one second or more, the object keeps that lookback, and a   *)
(* start time takes effect (lookback_seconds 0 with starting_time set)     *)
(* only when the lookback given is 0.                                      *)
(***************************************************************************)
C21_LookbackOverridesAsClaimed ==
    (qpc = "built" /\ IntOf(Lookback(qArgs)) # 0) =>
        query.lookback_seconds = IntOf(Lookback(qArgs))

\* A request with lookback_seconds 3600 and a start time: the object built
\* has lookback_seconds 0 and the start time.
C21_StartTimeOverridesLookback ==
    /\ qpc = "built"
    /\ qArgs.lookback = DefaultLookbackHalves
    /\ Given(qArgs.starting_time)
    /\ query.lookback_seconds = 0
    /\ query.starting_time = qArgs.starting_time

(***************************************************************************)
(* C22: every goroutine that acquired a slot of the gate gives it back     *)
(* exactly once, after a failed fetch as after a successful one: the       *)
(* number of held slots is always the number of goroutines between         *)
(* acquire and release, and it is 0 once the handler is past the barrier   *)
(* or has returned.                                                        *)
(***************************************************************************)
C22_NoSlotLeaked ==
    /\ sem = Cardinality(InFlight)
    /\ (PastBarrier \/ hpc = "returned") => sem = 0

\* Five devices were listed, one of the fetches failed, and no slot is held.
C22_ReturnedAfterFailedFetch ==
    /\ hpc = "returned"
    /\ PastBarrier
    /\ Len(activeDevices) = 5
    /\ \E i \in 1..5 : results[i].Error # ""
    /\ sem = 0

(***************************************************************************)
(* C23: the interfaces of every active device are requested exactly once,  *)
(* whether the request succeeds or fails: a goroutine that has sent its    *)
(* request never sends another, and when the handler is past the barrier   *)
(* every active device has been requested once and nothing else has.       *)
(***************************************************************************)
C23_EachDeviceFetchedOnce ==
    /\ \A i \in Tasks :
          /\ fetchCalls[i] <= 1
          /\ (tpc[i] \in {"fetching", "fetched", "released", "done"})
                => fetchCalls[i] = 1
          /\ (tpc[i] \in {"none", "blocked", "sleeping"}) => fetchCalls[i] = 0
    /\ PastBarrier =>
          \A i \in Tasks :
              fetchCalls[i] = IF i <= Len(activeDevices) THEN 1 ELSE 0

\* Three devices were listed; the second fetch failed and was made once.
C23_FailedFetchMadeOnce ==
    /\ hpc = "returned"
    /\ PastBarrier
    /\ Len(activeDevices) = 3
    /\ results[2].Error # ""
    /\ results[1].Error = ""
    /\ \A i \in 1..3 : fetchCalls[i] = 1

(***************************************************************************)
(* C24: under fair scheduling, with every fetch returning, the listing     *)
(* eventually returns with every goroutine it started done and every       *)
(* active device requested, so every goroutine that was blocked at the     *)
(* gate has acquired a slot; this for every number of devices (below, at   *)
(* and above the capacity 4 of the gate): the gate and the barrier do not  *)
(* deadlock.                                                               *)
(***************************************************************************)
C24_ListingTerminates ==
    <>(/\ hpc = "returned"
       /\ \A i \in Tasks : tpc[i] \in {"none", "done"}
       /\ \A i \in 1..Len(activeDevices) : fetchCalls[i] = 1)

\* A listing of more devices than the gate has slots has returned, all its
\* goroutines done.
C24_ReturnedWithMoreDevicesThanSlots ==
    /\ hpc = "returned"
    /\ PastBarrier
    /\ Len(activeDevices) > SemCap
    /\ \A i \in 1..Len(activeDevices) : tpc[i] = "done"
    /\ wg = 0

(***************************************************************************)
(* C25: in one invocation every poll, the first one included, comes after  *)
(* exactly one wait of the interval: a poll is sent only when one more     *)
(* wait than polls has been made, and a wait is made only when as many     *)
(* polls as waits have been made (elapsed counts the waits, Interval       *)
(* each).  So the events are submit, then wait, poll, wait, poll, ...      *)
(***************************************************************************)
C25_WaitBeforeEveryPoll ==
    [][/\ (polls' > polls) =>
             /\ polls' = polls + 1
             /\ submits = 1
             /\ elapsed = Interval * (polls + 1)
             /\ elapsed' = elapsed
       /\ (elapsed' > elapsed) =>
             /\ elapsed' = elapsed + Interval
             /\ submits = 1
             /\ elapsed = Interval * polls
             /\ polls' = polls]_vars

\* The wait before the first poll is over and no poll has been sent yet.
C25_WaitedBeforeFirstPoll ==
    /\ apc = "poll"
    /\ submits = 1
    /\ polls = 0
    /\ elapsed = Interval

(***************************************************************************)
(* C26: only the statuses SESSION_STATUS_COMPLETED and                     *)
(* SESSION_STATUS_FAILED end the loop.  An invocation that returned as     *)
(* completed or failed saw that status in its last poll; an invocation     *)
(* that polled, saw neither status in any reply (pending, running,         *)
(* unspecified, unrecognized or empty statuses only) and had no failed or  *)
(* unparsable poll, returned the timeout result after all 45 polls.        *)
(***************************************************************************)
C26_OnlyTerminalStatusesEndLoop ==
    /\ (apc = "returned" /\ cause \in {"completed", "failed"}) =>
          /\ lastReply.kind = "ok"
          /\ lastReply.status \in {"SESSION_STATUS_COMPLETED",
                                   "SESSION_STATUS_FAILED"}
          /\ termAt = polls
    /\ (/\ apc = "returned"
        /\ polls > 0
        /\ termAt = 0
        /\ cause \notin {"poll_failed", "poll_parse"}) =>
          /\ cause = "timeout"
          /\ polls = MaxWait \div Interval
          /\ advResult.fmt = FmtTimeout
    /\ (apc \in {"loop", "poll"}) => (termAt = 0 /\ advResult = NoResult)

\* A new session whose 45 poll replies all showed a status that is not
\* terminal has timed out.
C26_NoTerminalStatusTimedOut ==
    /\ apc = "returned"
    /\ argSession = ""
    /\ cause = "timeout"
    /\ termAt = 0
    /\ polls = 45
    /\ elapsed = MaxWait

(***************************************************************************)
(* C27: the Gateway calls of one invocation are made one after the other   *)
(* by the handler itself: the single submission comes before every poll    *)
(* (a step that submits leaves no poll made, a step that polls finds one   *)
(* submission made and makes one poll), and every poll is addressed to the *)
(* identifier the submission reply returned, which does not change during  *)
(* the invocation.                                                         *)
(***************************************************************************)
C27_SequentialCallsOneHandle ==
    [][/\ (submits' # submits \/ inv' # inv) => (polls' = 0 /\ submits' <= 1)
       /\ (polls' # polls /\ inv' = inv) =>
             /\ apc = "poll"
             /\ submits = 1
             /\ submits' = 1
             /\ polls' = polls + 1
             /\ pollTarget' = respID
             /\ respID' = respID
             /\ (polls > 0) => pollTarget = pollTarget'
       /\ (inv' = inv) => respID' = respID]_vars

\* The third poll of a follow-up on session s1 went to the identifier s2
\* that the submission reply returned, as did the polls before it.
C27_ThirdPollToReturnedHandle ==
    /\ argSession = "s1"
    /\ respID = "s2"
    /\ submits = 1
    /\ polls = 3
    /\ pollTarget = "s2"

(***************************************************************************)
(* C28 (as claimed): when several listings run at once on the same client, *)
(* the requests for interfaces outstanding over all of them are at most 4  *)
(* at every instant.                                                       *)
(***************************************************************************)
C28_AtMostFourAcrossListingsAsClaimed == Cardinality(FetchesInFlight) <= 4

\* Two listings of four devices each have all their requests outstanding:
\* eight at once, four slots held in each of the two channels.
C28_EightFetchesInFlight ==
    /\ Cardinality(FetchesInFlight) = 8
    /\ lsem[1] = 4
    /\ lsem[2] = 4

(***************************************************************************)
(* C29: with the context tools called one call after the other on a file   *)
(* whose names are pairwise distinct ignoring case, the names stay         *)
(* pairwise distinct ignoring case; a save whose name matches a stored     *)
(* context ignoring case puts the new context at that context's position   *)
(* and leaves the length and every other context as they were, and a save  *)
(* whose name matches none appends the new context to the unchanged list.  *)
(***************************************************************************)
C29_NamesStayDistinct ==
    /\ [](\A i, j \in 1..Len(store) :
             (ToLower(store[i].Name) = ToLower(store[j].Name)) => i = j)
    /\ [][\A p \in Calls :
            (spc[p] = "loaded" /\ sres'[p] = "saved") =>
               LET qc == [Name |-> sop[p].name, Description |-> sop[p].desc]
                   hit == {k \in 1..Len(store) :
                              ToLower(store[k].Name) = ToLower(qc.Name)}
               IN  IF hit = {}
                   THEN store' = Append(store, qc)
                   ELSE /\ Len(store') = Len(store)
                        /\ \A k \in 1..Len(store) :
                              store'[k] = IF k \in hit THEN qc ELSE store[k]
         ]_vars

\* "Borders" was saved over the stored "borders": it took its place, before
\* "core", which was left as it was.
C29_SavedOverOtherCase ==
    /\ sres[1] = "saved"
    /\ sop[1] = [kind |-> "save", name |-> "Borders", desc |-> "d2"]
    /\ store = <<[Name |-> "Borders", Description |-> "d2"],
                 [Name |-> "core", Description |-> "d1"]>>

(***************************************************************************)
(* C30 (as claimed): when two calls of kentik_save_context with different  *)
(* names run at the same time and both report success, both contexts are   *)
(* in the store afterwards.                                                *)
(***************************************************************************)
C30_BothSavesKeptAsClaimed ==
    \A p, q \in Calls :
        (/\ p # q
         /\ sop[p].kind = "save" /\ sres[p] = "saved"
         /\ sop[q].kind = "save" /\ sres[q] = "saved"
         /\ ToLower(sop[p].name) # ToLower(sop[q].name)) =>
            \E k \in 1..Len(store) : store[k].Name = sop[p].name

\* On an empty store "borders" and "core" were saved at the same time, both
\* calls reported success, and the store holds "core" alone.
C30_SavedContextLost ==
    /\ sop[1] = [kind |-> "save", name |-> "borders", desc |-> "d1"]
    /\ sop[2] = [kind |-> "save", name |-> "core", desc |-> "d1"]
    /\ sres[1] = "saved"
    /\ sres[2] = "saved"
    /\ store = <<[Name |-> "core", Description |-> "d1"]>>

=============================================================================
